---- MODULE Spec2Model ----
(***************************************************************************)
(* The ccproxy conformance harness (src/scripts/ccproxy_test.py): the four *)
(* response validators, the transport client and the matrix runner.        *)
(*                                                                         *)
(* Text is a sequence of one-character strings.  A Python value is a       *)
(* tagged record; a Python expression that can raise evaluates to          *)
(* Ok(value) or Err(exception type).  The script's f-strings with a        *)
(* backslash in the expression part compile from Python 3.12 on, whose     *)
(* semantics are the ones modelled.                                        *)
(***************************************************************************)
EXTENDS Integers, Sequences, FiniteSets, TLC

\* ------------------------------------------------------------------ text

S_choices == <<"c", "h", "o", "i", "c", "e", "s">>
S_message == <<"m", "e", "s", "s", "a", "g", "e">>
S_content == <<"c", "o", "n", "t", "e", "n", "t">>
S_tool_calls == <<"t", "o", "o", "l", "_", "c", "a", "l", "l", "s">>
S_function == <<"f", "u", "n", "c", "t", "i", "o", "n">>
S_name == <<"n", "a", "m", "e">>
S_get_weather == <<"g", "e", "t", "_", "w", "e", "a", "t", "h", "e", "r">>
S_candidates == <<"c", "a", "n", "d", "i", "d", "a", "t", "e", "s">>
S_parts == <<"p", "a", "r", "t", "s">>
S_text == <<"t", "e", "x", "t">>
S_functionCall == <<"f", "u", "n", "c", "t", "i", "o", "n", "C", "a", "l", "l">>
S_type == <<"t", "y", "p", "e">>
S_tool_use == <<"t", "o", "o", "l", "_", "u", "s", "e">>
S_Empty == <<"E", "m", "p", "t", "y">>
S_null == <<"n", "u", "l", "l">>
S_true == <<"t", "r", "u", "e">>
S_false == <<"f", "a", "l", "s", "e">>
S_embedding == <<"e", "m", "b", "e", "d", "d", "i", "n", "g">>
S_embeddings == <<"e", "m", "b", "e", "d", "d", "i", "n", "g", "s">>
S_values == <<"v", "a", "l", "u", "e", "s">>

Digits == <<"0", "1", "2", "3", "4", "5", "6", "7", "8", "9">>

IsDigit(c) == \E d \in 1..10 : Digits[d] = c

DigitValue(c) == (CHOOSE d \in 1..10 : Digits[d] = c) - 1

Min(a, b) == IF a <= b THEN a ELSE b

RECURSIVE NatText(_)
NatText(n) == IF n < 10 THEN <<Digits[n + 1]>> ELSE NatText(n \div 10) \o <<Digits[(n % 10) + 1]>>

\* str(n)
IntText(n) == IF n < 0 THEN <<"-">> \o NatText(0 - n) ELSE NatText(n)

\* s[:n] on a sequence
Take(s, n) == SubSeq(s, 1, Min(Len(s), n))

\* sub in s, for two texts
IsSubstring(sub, s) ==
    \E i \in 0..(Len(s) - Len(sub)) : SubSeq(s, i + 1, i + Len(sub)) = sub

\* s.replace(a, b) for one-character a and b
Replace(s, a, b) == [i \in 1..Len(s) |-> IF s[i] = a THEN b ELSE s[i]]

\* --------------------------------------------------------- Python values

PyNone == [t |-> "None"]
PyBool(b) == [t |-> "bool", b |-> b]
PyInt(n) == [t |-> "int", n |-> n]
PyStr(s) == [t |-> "str", s |-> s]
PyList(l) == [t |-> "list", l |-> l]
\* a dict keeps its items in insertion order, one per key
PyDict(items) == [t |-> "dict", items |-> items]

HasKey(x, k) == \E i \in 1..Len(x.items) : x.items[i].k = k

Lookup(x, k) == x.items[CHOOSE i \in 1..Len(x.items) : x.items[i].k = k].v

\* d[k] = v on the items of a dict: a repeated key keeps its place, the last value wins
DictSet(items, k, v) ==
    IF \E i \in 1..Len(items) : items[i].k = k
    THEN [i \in 1..Len(items) |-> IF items[i].k = k THEN [k |-> k, v |-> v] ELSE items[i]]
    ELSE Append(items, [k |-> k, v |-> v])

Ok(v) == [ok |-> TRUE, v |-> v]
Err(e) == [ok |-> FALSE, e |-> e]

\* bool(x)
Truthy(x) ==
    CASE x.t = "None" -> FALSE
      [] x.t = "bool" -> x.b
      [] x.t = "int" -> x.n # 0
      [] x.t = "str" -> Len(x.s) > 0
      [] x.t = "list" -> Len(x.l) > 0
      [] x.t = "dict" -> Len(x.items) > 0

\* x == 'k' for a str literal k
EqStr(x, k) == x.t = "str" /\ x.s = k

\* 'k' in x
Contains(k, x) ==
    CASE x.t = "dict" -> Ok(HasKey(x, k))
      [] x.t = "list" -> Ok(\E i \in 1..Len(x.l) : EqStr(x.l[i], k))
      [] x.t = "str" -> Ok(IsSubstring(k, x.s))
      [] OTHER -> Err("TypeError")

\* x['k']
GetItem(x, k) ==
    CASE x.t = "dict" -> IF HasKey(x, k) THEN Ok(Lookup(x, k)) ELSE Err("KeyError")
      [] OTHER -> Err("TypeError")

\* x[0]
GetFirst(x) ==
    CASE x.t = "list" -> IF Len(x.l) > 0 THEN Ok(x.l[1]) ELSE Err("IndexError")
      [] x.t = "str" -> IF Len(x.s) > 0 THEN Ok(PyStr(<<x.s[1]>>)) ELSE Err("IndexError")
      [] x.t = "dict" -> Err("KeyError")
      [] OTHER -> Err("TypeError")

\* x.get('k', default)
Get(x, k, default) ==
    IF x.t = "dict"
    THEN Ok(IF HasKey(x, k) THEN Lookup(x, k) ELSE default)
    ELSE Err("AttributeError")

\* x[:n]
Slice(x, n) ==
    CASE x.t = "str" -> Ok(PyStr(Take(x.s, n)))
      [] x.t = "list" -> Ok(PyList(Take(x.l, n)))
      [] x.t = "dict" -> Err("KeyError")
      [] OTHER -> Err("TypeError")

\* x.replace('\n', ' ')
ReplaceNewline(x) ==
    IF x.t = "str" THEN Ok(PyStr(Replace(x.s, "\n", " "))) ELSE Err("AttributeError")

\* the items a for loop over x visits
Iter(x) ==
    CASE x.t = "list" -> Ok(x.l)
      [] x.t = "str" -> Ok([i \in 1..Len(x.s) |-> PyStr(<<x.s[i]>>)])
      [] x.t = "dict" -> Ok([i \in 1..Len(x.items) |-> PyStr(x.items[i].k)])
      [] OTHER -> Err("TypeError")

\* r, then f on its value: an exception ends the evaluation (r is evaluated once,
\* as the one element x of a set)
Bind(r, f(_)) == CHOOSE y \in {IF x.ok THEN f(x.v) ELSE x : x \in {r}} : TRUE

\* ------------------------------------------------------------ json.loads

\* a parse step: the value read and the index after it, or a failure
Parsed(v, i) == [ok |-> TRUE, v |-> v, i |-> i]
NoParse == [ok |-> FALSE]

RECURSIVE SkipWS(_, _)
SkipWS(s, i) ==
    IF i <= Len(s) /\ s[i] \in {" ", "\n"} THEN SkipWS(s, i + 1) ELSE i

\* the characters of a string literal from index j (after the opening quote)
RECURSIVE ScanString(_, _, _)
ScanString(s, j, acc) ==
    IF j > Len(s) THEN NoParse
    ELSE IF s[j] = "\"" THEN Parsed(acc, j + 1)
    ELSE IF s[j] = "\n" THEN NoParse
    ELSE IF s[j] = "\\"
         THEN IF j + 1 > Len(s) THEN NoParse
              ELSE IF s[j + 1] = "n" THEN ScanString(s, j + 2, Append(acc, "\n"))
              ELSE IF s[j + 1] \in {"\"", "\\", "/"}
                   THEN ScanString(s, j + 2, Append(acc, s[j + 1]))
              ELSE NoParse
    ELSE ScanString(s, j + 1, Append(acc, s[j]))

RECURSIVE ScanDigits(_, _, _)
ScanDigits(s, j, n) ==
    IF j <= Len(s) /\ IsDigit(s[j])
    THEN ScanDigits(s, j + 1, 10 * n + DigitValue(s[j]))
    ELSE Parsed(n, j)

\* an integer literal: -? (0 | [1-9][0-9]*)
ParseNumber(s, i) ==
    LET neg == s[i] = "-"
        j == IF neg THEN i + 1 ELSE i
    IN  IF j > Len(s) \/ ~IsDigit(s[j]) THEN NoParse
        ELSE LET r == IF s[j] = "0" THEN Parsed(0, j + 1) ELSE ScanDigits(s, j, 0)
             IN  Parsed(PyInt(IF neg THEN 0 - r.v ELSE r.v), r.i)

ParseLiteral(s, i, word, v) ==
    IF SubSeq(s, i, Min(Len(s), i + Len(word) - 1)) = word
    THEN Parsed(v, i + Len(word))
    ELSE NoParse

RECURSIVE ParseValue(_, _), ParseMembers(_, _, _), ParseElements(_, _, _)

\* the value starting at index i (leading whitespace already skipped)
ParseValue(s, i) ==
    IF i > Len(s) THEN NoParse
    ELSE CASE s[i] = "{" ->
                LET j == SkipWS(s, i + 1)
                IN  IF j <= Len(s) /\ s[j] = "}"
                    THEN Parsed(PyDict(<<>>), j + 1)
                    ELSE ParseMembers(s, j, <<>>)
           [] s[i] = "[" ->
                LET j == SkipWS(s, i + 1)
                IN  IF j <= Len(s) /\ s[j] = "]"
                    THEN Parsed(PyList(<<>>), j + 1)
                    ELSE ParseElements(s, j, <<>>)
           [] s[i] = "\"" ->
                LET r == ScanString(s, i + 1, <<>>)
                IN  IF r.ok THEN Parsed(PyStr(r.v), r.i) ELSE NoParse
           [] s[i] = "-" \/ IsDigit(s[i]) -> ParseNumber(s, i)
           [] s[i] = "n" -> ParseLiteral(s, i, S_null, PyNone)
           [] s[i] = "t" -> ParseLiteral(s, i, S_true, PyBool(TRUE))
           [] s[i] = "f" -> ParseLiteral(s, i, S_false, PyBool(FALSE))
           [] OTHER -> NoParse

\* "key" : value ( , "key" : value )* } from index i, onto the items read so far
ParseMembers(s, i, items) ==
    IF i > Len(s) \/ s[i] # "\"" THEN NoParse
    ELSE LET key == ScanString(s, i + 1, <<>>)
         IN  IF ~key.ok THEN NoParse
             ELSE LET c == SkipWS(s, key.i)
                  IN  IF c > Len(s) \/ s[c] # ":" THEN NoParse
                      ELSE LET val == ParseValue(s, SkipWS(s, c + 1))
                           IN  IF ~val.ok THEN NoParse
                               ELSE LET e == SkipWS(s, val.i)
                                        now == DictSet(items, key.v, val.v)
                                    IN  IF e > Len(s) THEN NoParse
                                        ELSE IF s[e] = "}" THEN Parsed(PyDict(now), e + 1)
                                        ELSE IF s[e] = ","
                                             THEN ParseMembers(s, SkipWS(s, e + 1), now)
                                        ELSE NoParse

\* value ( , value )* ] from index i, onto the elements read so far
ParseElements(s, i, elems) ==
    LET val == ParseValue(s, i)
    IN  IF ~val.ok THEN NoParse
        ELSE LET e == SkipWS(s, val.i)
                 now == Append(elems, val.v)
             IN  IF e > Len(s) THEN NoParse
                 ELSE IF s[e] = "]" THEN Parsed(PyList(now), e + 1)
                 ELSE IF s[e] = ","
                      THEN ParseElements(s, SkipWS(s, e + 1), now)
                 ELSE NoParse

\* json.loads(body): one value, whitespace around it, nothing after it
json_loads(body) ==
    LET r == ParseValue(body, SkipWS(body, 1))
    IN  IF ~r.ok THEN Err("JSONDecodeError")
        ELSE IF SkipWS(body, r.i) <= Len(body) THEN Err("JSONDecodeError")
        ELSE Ok(r.v)

\* ------------------------------------------------------------- verdicts

\* what a call of a validator ends in: a returned (passed, message) pair ...
Verdict(passed, msg) == [outcome |-> "return", passed |-> passed, msg |-> msg]
\* ... or an exception that leaves the validator
Raised(e) == [outcome |-> "raise", e |-> e]

\* f"HTTP {code}: {body[:100]}"
MsgHTTP(code, shown) ==
    [kind |-> "HTTP", code |-> code, body |-> shown,
     text |-> <<"H", "T", "T", "P", " ">> \o IntText(code) \o <<":", " ">> \o shown]
\* "Missing '<field>' in <protocol> response"
MsgMissing(fld, protocol) == [kind |-> "Missing", fld |-> fld, protocol |-> protocol]
\* "Protocol Error: Received OpenAI format but expected <protocol>"
MsgProtocolError(protocol) == [kind |-> "ProtocolError", received |-> "OpenAI", expected |-> protocol]
\* "Tool Call OK", "Tool Use OK", "Function Call OK"
MsgToolOK(label) == [kind |-> "ToolOK", label |-> label]
\* f"<what> missing. Model said: {said}"
MsgToolMissing(what, said) == [kind |-> "ToolMissing", what |-> what, said |-> said]
\* f"Text: {shown}..."
MsgText(shown) == [kind |-> "Text", shown |-> shown]
\* "Empty content"
MsgEmpty == [kind |-> "EmptyContent"]
\* str(e)
MsgException(e) == [kind |-> "Exception", e |-> e]

\* mutant: except json.JSONDecodeError as e, which lets every other exception out
Except_json_only(r) ==
    CHOOSE y \in {IF x.ok THEN x.v
                  ELSE IF x.e = "JSONDecodeError" THEN Verdict(FALSE, MsgException(x.e))
                  ELSE Raised(x.e) : x \in {r}} : TRUE

\* try: ... except Exception as e: return False, str(e)
Except(r) ==
    CHOOSE y \in {IF x.ok THEN x.v ELSE Verdict(FALSE, MsgException(x.e)) : x \in {r}} : TRUE

\* --------------------------------------------------------- validate_openai

\* tcs and tcs[0].get('function', {}).get('name') == 'get_weather'
FirstCallIsGetWeather(tcs) ==
    IF ~Truthy(tcs) THEN Ok(FALSE)
    ELSE Bind(GetFirst(tcs), LAMBDA tc :
         Bind(Get(tc, S_function, PyDict(<<>>)), LAMBDA fn :
         Bind(Get(fn, S_name, PyNone), LAMBDA nm : Ok(EqStr(nm, S_get_weather)))))

openai_tool_branch(msg) ==
    Bind(Get(msg, S_tool_calls, PyNone), LAMBDA tcs :
    Bind(FirstCallIsGetWeather(tcs), LAMBDA hit :
        IF hit THEN Ok(Verdict(TRUE, MsgToolOK("Tool Call OK")))
        ELSE Bind(Get(msg, S_content, PyStr(<<>>)), LAMBDA c :
             Bind(Slice(c, 100), LAMBDA said :
                 Ok(Verdict(FALSE, MsgToolMissing("tool_calls", said)))))))

\* mutant: the text read from msg['text'], the key of a Claude block
openai_text_branch_text_key(msg) ==
    Bind(Get(msg, S_text, PyNone), LAMBDA c :
        IF Truthy(c)
        THEN Bind(GetItem(msg, S_text), LAMBDA c2 :
             Bind(Slice(c2, 25), LAMBDA cut :
             Bind(ReplaceNewline(cut), LAMBDA shown : Ok(Verdict(TRUE, MsgText(shown))))))
        ELSE Ok(Verdict(FALSE, MsgEmpty)))

openai_text_branch(msg) ==
    Bind(Get(msg, S_content, PyNone), LAMBDA c :
        IF Truthy(c)
        THEN Bind(GetItem(msg, S_content), LAMBDA c2 :
             Bind(Slice(c2, 25), LAMBDA cut :
             Bind(ReplaceNewline(cut), LAMBDA shown : Ok(Verdict(TRUE, MsgText(shown))))))
        ELSE Ok(Verdict(FALSE, MsgEmpty)))

\* the try block of validate_openai
openai_try(body, is_tool, is_compat) ==
    Bind(json_loads(body), LAMBDA data :
    Bind(Contains(S_choices, data), LAMBDA has :
        IF ~has THEN Ok(Verdict(FALSE, MsgMissing("choices", "OpenAI")))
        ELSE Bind(GetItem(data, S_choices), LAMBDA chs :
             Bind(GetFirst(chs), LAMBDA ch :
             Bind(GetItem(ch, S_message), LAMBDA msg :
                 IF is_tool \/ is_compat
                 THEN openai_tool_branch(msg)
                 ELSE openai_text_branch(msg))))))

validate_openai(code, body, is_tool, is_compat) ==
    IF code # 200 THEN Verdict(FALSE, MsgHTTP(code, Take(body, 100)))
    ELSE Except(openai_try(body, is_tool, is_compat))

\* --------------------------------------------------------- validate_claude

\* c.get('type') == 'tool_use' and c.get('name') == 'get_weather'
IsToolUse(c) ==
    Bind(Get(c, S_type, PyNone), LAMBDA ty :
        IF ~EqStr(ty, S_tool_use) THEN Ok(FALSE)
        ELSE Bind(Get(c, S_name, PyNone), LAMBDA nm : Ok(EqStr(nm, S_get_weather))))

\* any(... for c in items), from item i on: the first true item or exception decides
RECURSIVE AnyToolUse(_, _)
AnyToolUse(items, i) ==
    IF i > Len(items) THEN Ok(FALSE)
    ELSE Bind(IsToolUse(items[i]), LAMBDA hit :
             IF hit THEN Ok(TRUE) ELSE AnyToolUse(items, i + 1))

\* content_list[0].get('text', '') if content_list else <otherwise>
FirstText(list, otherwise) ==
    IF Truthy(list)
    THEN Bind(GetFirst(list), LAMBDA first : Get(first, S_text, PyStr(<<>>)))
    ELSE Ok(PyStr(otherwise))

claude_tool_branch(content_list) ==
    Bind(Iter(content_list), LAMBDA items :
    Bind(AnyToolUse(items, 1), LAMBDA found :
        IF found THEN Ok(Verdict(TRUE, MsgToolOK("Tool Use OK")))
        ELSE Bind(FirstText(content_list, S_Empty), LAMBDA text :
             Bind(Slice(text, 100), LAMBDA said :
                 Ok(Verdict(FALSE, MsgToolMissing("tool_use", said)))))))

\* mutant: content_list[0]['text'], which raises when the first block has no text
claude_text_branch_subscript(content_list) ==
    Bind(IF Truthy(content_list)
         THEN Bind(GetFirst(content_list), LAMBDA first : GetItem(first, S_text))
         ELSE Ok(PyStr(<<>>)), LAMBDA text :
        IF Truthy(text)
        THEN Bind(Slice(text, 25), LAMBDA cut :
             Bind(ReplaceNewline(cut), LAMBDA shown : Ok(Verdict(TRUE, MsgText(shown)))))
        ELSE Ok(Verdict(FALSE, MsgEmpty)))

claude_text_branch(content_list) ==
    Bind(FirstText(content_list, <<>>), LAMBDA text :
        IF Truthy(text)
        THEN Bind(Slice(text, 25), LAMBDA cut :
             Bind(ReplaceNewline(cut), LAMBDA shown : Ok(Verdict(TRUE, MsgText(shown)))))
        ELSE Ok(Verdict(FALSE, MsgEmpty)))

\* mutant: no test of 'content' in data, data.get('content', []) alone
claude_try_no_presence_test(body, is_tool, is_compat) ==
    Bind(json_loads(body), LAMBDA data :
    Bind(Get(data, S_content, PyList(<<>>)), LAMBDA content_list :
        IF is_tool \/ is_compat
        THEN claude_tool_branch(content_list)
        ELSE claude_text_branch(content_list)))

\* the try block of validate_claude
claude_try(body, is_tool, is_compat) ==
    Bind(json_loads(body), LAMBDA data :
    Bind(Contains(S_content, data), LAMBDA has :
        IF ~has THEN Ok(Verdict(FALSE, MsgMissing("content", "Claude")))
        ELSE Bind(Get(data, S_content, PyList(<<>>)), LAMBDA content_list :
                 IF is_tool \/ is_compat
                 THEN claude_tool_branch(content_list)
                 ELSE claude_text_branch(content_list))))

validate_claude(code, body, is_tool, is_compat) ==
    IF code # 200 THEN Verdict(FALSE, MsgHTTP(code, Take(body, 100)))
    ELSE Except(claude_try(body, is_tool, is_compat))

\* --------------------------------------------------------- validate_gemini

\* p.get('functionCall', {}).get('name') == 'get_weather'
IsFunctionCall(p) ==
    Bind(Get(p, S_functionCall, PyDict(<<>>)), LAMBDA fc :
    Bind(Get(fc, S_name, PyNone), LAMBDA nm : Ok(EqStr(nm, S_get_weather))))

RECURSIVE AnyFunctionCall(_, _)
AnyFunctionCall(items, i) ==
    IF i > Len(items) THEN Ok(FALSE)
    ELSE Bind(IsFunctionCall(items[i]), LAMBDA hit :
             IF hit THEN Ok(TRUE) ELSE AnyFunctionCall(items, i + 1))

gemini_tool_branch(parts) ==
    Bind(Iter(parts), LAMBDA items :
    Bind(AnyFunctionCall(items, 1), LAMBDA found :
        IF found THEN Ok(Verdict(TRUE, MsgToolOK("Function Call OK")))
        ELSE Bind(FirstText(parts, S_Empty), LAMBDA text :
             Bind(Slice(text, 100), LAMBDA said :
                 Ok(Verdict(FALSE, MsgToolMissing("functionCall", said)))))))

gemini_text_branch(parts) ==
    Bind(FirstText(parts, <<>>), LAMBDA text :
        IF Truthy(text)
        THEN Bind(Slice(text, 25), LAMBDA cut :
             Bind(ReplaceNewline(cut), LAMBDA shown : Ok(Verdict(TRUE, MsgText(shown)))))
        ELSE Ok(Verdict(FALSE, MsgEmpty)))

\* the try block of validate_gemini
\* mutant: 'candidates' looked for first, 'choices' only in a body that has them
gemini_try_presence_first(body, is_tool, is_compat) ==
    Bind(json_loads(body), LAMBDA data :
    Bind(Contains(S_candidates, data), LAMBDA has :
        IF ~has THEN Ok(Verdict(FALSE, MsgMissing("candidates", "Gemini")))
        ELSE Bind(Contains(S_choices, data), LAMBDA foreign :
            IF foreign THEN Ok(Verdict(FALSE, MsgProtocolError("Gemini")))
            ELSE Bind(GetItem(data, S_candidates), LAMBDA cands :
                 Bind(GetFirst(cands), LAMBDA cand :
                 Bind(GetItem(cand, S_content), LAMBDA content :
                 Bind(GetItem(content, S_parts), LAMBDA parts :
                     IF is_tool \/ is_compat
                     THEN gemini_tool_branch(parts)
                     ELSE gemini_text_branch(parts))))))))

gemini_try(body, is_tool, is_compat) ==
    Bind(json_loads(body), LAMBDA data :
    Bind(Contains(S_choices, data), LAMBDA foreign :
        IF foreign THEN Ok(Verdict(FALSE, MsgProtocolError("Gemini")))
        ELSE Bind(Contains(S_candidates, data), LAMBDA has :
            IF ~has THEN Ok(Verdict(FALSE, MsgMissing("candidates", "Gemini")))
            ELSE Bind(GetItem(data, S_candidates), LAMBDA cands :
                 Bind(GetFirst(cands), LAMBDA cand :
                 Bind(GetItem(cand, S_content), LAMBDA content :
                 Bind(GetItem(content, S_parts), LAMBDA parts :
                     IF is_tool \/ is_compat
                     THEN gemini_tool_branch(parts)
                     ELSE gemini_text_branch(parts))))))))

\* mutant: the status looked at inside the try block, after json.loads(body)
validate_gemini_parse_first(code, body, is_tool, is_compat) ==
    Except(Bind(json_loads(body), LAMBDA data :
        IF code # 200 THEN Ok(Verdict(FALSE, MsgHTTP(code, Take(body, 100))))
        ELSE gemini_try(body, is_tool, is_compat)))

validate_gemini(code, body, is_tool, is_compat) ==
    IF code # 200 THEN Verdict(FALSE, MsgHTTP(code, Take(body, 100)))
    ELSE Except(gemini_try(body, is_tool, is_compat))

\* --------------------------------------------------------- validate_ollama

ollama_tool_branch(msg) ==
    Bind(Get(msg, S_tool_calls, PyNone), LAMBDA tcs :
    Bind(FirstCallIsGetWeather(tcs), LAMBDA hit :
        IF hit THEN Ok(Verdict(TRUE, MsgToolOK("Tool Call OK")))
        ELSE Bind(Get(msg, S_content, PyStr(<<>>)), LAMBDA c :
             Bind(Slice(c, 100), LAMBDA said :
                 Ok(Verdict(FALSE, MsgToolMissing("tool_calls", said)))))))

ollama_text_branch(msg) ==
    Bind(Get(msg, S_content, PyNone), LAMBDA c :
        IF Truthy(c)
        THEN Bind(GetItem(msg, S_content), LAMBDA c2 :
             Bind(Slice(c2, 25), LAMBDA cut :
             Bind(ReplaceNewline(cut), LAMBDA shown : Ok(Verdict(TRUE, MsgText(shown))))))
        ELSE Ok(Verdict(FALSE, MsgEmpty)))

\* mutant: a body with 'choices' judged as an OpenAI response instead of rejected
ollama_try_accepts_openai(body, is_tool, is_compat) ==
    Bind(json_loads(body), LAMBDA data :
    Bind(Contains(S_choices, data), LAMBDA foreign :
        IF foreign THEN openai_try(body, is_tool, is_compat)
        ELSE Bind(Contains(S_message, data), LAMBDA has :
            IF ~has THEN Ok(Verdict(FALSE, MsgMissing("message", "Ollama")))
            ELSE Bind(Get(data, S_message, PyDict(<<>>)), LAMBDA msg :
                     IF is_tool \/ is_compat
                     THEN ollama_tool_branch(msg)
                     ELSE ollama_text_branch(msg)))))

\* the try block of validate_ollama
ollama_try(body, is_tool, is_compat) ==
    Bind(json_loads(body), LAMBDA data :
    Bind(Contains(S_choices, data), LAMBDA foreign :
        IF foreign THEN Ok(Verdict(FALSE, MsgProtocolError("Ollama")))
        ELSE Bind(Contains(S_message, data), LAMBDA has :
            IF ~has THEN Ok(Verdict(FALSE, MsgMissing("message", "Ollama")))
            ELSE Bind(Get(data, S_message, PyDict(<<>>)), LAMBDA msg :
                     IF is_tool \/ is_compat
                     THEN ollama_tool_branch(msg)
                     ELSE ollama_text_branch(msg)))))

validate_ollama(code, body, is_tool, is_compat) ==
    IF code # 200 THEN Verdict(FALSE, MsgHTTP(code, Take(body, 100)))
    ELSE Except(ollama_try(body, is_tool, is_compat))

\* the validator of a protocol, as test_all pairs them
Validate(protocol, code, body, is_tool, is_compat) ==
    CASE protocol = "openai" -> validate_openai(code, body, is_tool, is_compat)
      [] protocol = "claude" -> validate_claude(code, body, is_tool, is_compat)
      [] protocol = "ollama" -> validate_ollama(code, body, is_tool, is_compat)
      [] protocol = "gemini" -> validate_gemini(code, body, is_tool, is_compat)

\* ------------------------------------------------- the gateway's bodies

\* the most entries a tool-call list, a content list or a parts list carries
MaxItems == 2

\* a string literal: the text between quotes, with its escapes
RECURSIVE Escaped(_)
Escaped(s) ==
    IF s = <<>> THEN <<>>
    ELSE (CASE Head(s) = "\n" -> <<"\\", "n">>
            [] Head(s) = "\"" -> <<"\\", "\"">>
            [] Head(s) = "\\" -> <<"\\", "\\">>
            [] OTHER -> <<Head(s)>>) \o Escaped(Tail(s))

Quoted(s) == <<"\"">> \o Escaped(s) \o <<"\"">>

\* the text a JSON encoder writes for a value (", " and ": " as separators)
RECURSIVE Dumps(_), DumpItems(_, _), DumpElems(_, _)
Dumps(x) ==
    CASE x.t = "None" -> S_null
      [] x.t = "bool" -> IF x.b THEN S_true ELSE S_false
      [] x.t = "int" -> IntText(x.n)
      [] x.t = "str" -> Quoted(x.s)
      [] x.t = "list" -> <<"[">> \o DumpElems(x.l, 1) \o <<"]">>
      [] x.t = "dict" -> <<"{">> \o DumpItems(x.items, 1) \o <<"}">>

DumpElems(l, i) ==
    IF i > Len(l) THEN <<>>
    ELSE Dumps(l[i]) \o (IF i < Len(l) THEN <<",", " ">> ELSE <<>>) \o DumpElems(l, i + 1)

DumpItems(items, i) ==
    IF i > Len(items) THEN <<>>
    ELSE Quoted(items[i].k) \o <<":", " ">> \o Dumps(items[i].v)
         \o (IF i < Len(items) THEN <<",", " ">> ELSE <<>>) \o DumpItems(items, i + 1)

\* a field left out of an object
Absent == [t |-> "absent"]

KV(k, v) == [k |-> k, v |-> v]

\* the object with the given fields, in order, without the absent ones
Obj(fields) == PyDict(SelectSeq(fields, LAMBDA f : f.v.t # "absent"))

SeqsUpTo(S, n) == UNION {[1..k -> S] : k \in 0..n}

S_hi == <<"h", "i">>
S_other == <<"o", "t", "h", "e", "r">>
S_lines == <<"a", "\n", "b">>
S_error == <<"e", "r", "r", "o", "r">>
S_role == <<"r", "o", "l", "e">>

\* the values a text field takes: left out, null, empty, text, text with a line break
TextValues == {Absent, PyNone, PyStr(<<>>), PyStr(S_hi), PyStr(S_lines)}

\* a value of the wrong type where a list, an object or a text is expected
OddValues == {PyNone, PyStr(S_hi), PyStr(<<>>), PyInt(7), PyBool(TRUE), PyList(<<>>), PyDict(<<>>)}

\* OpenAI / Ollama: an entry of message.tool_calls
ToolCall(nm) == Obj(<<KV(S_type, PyStr(S_function)), KV(S_function, Obj(<<KV(S_name, PyStr(nm))>>))>>)
ToolCallEntries == {ToolCall(S_get_weather), ToolCall(S_other), Obj(<<KV(S_function, PyNone)>>)}
ToolCallLists == {Absent, PyNone} \cup {PyList(l) : l \in SeqsUpTo(ToolCallEntries, MaxItems)}

Messages ==
    {Obj(<<KV(S_content, c), KV(S_tool_calls, tcs)>>) : c \in TextValues, tcs \in ToolCallLists}

OpenAIValues ==
    {Obj(<<KV(S_choices, PyList(<<Obj(<<KV(S_message, m)>>)>>))>>) : m \in Messages}
    \cup {Obj(<<KV(S_choices, v)>>) : v \in OddValues \cup {PyList(<<o>>) : o \in OddValues}}
    \cup {Obj(<<KV(S_choices, PyList(<<Obj(<<KV(S_message, v)>>)>>))>>) : v \in OddValues}

OllamaValues ==
    {Obj(<<KV(S_message, m)>>) : m \in Messages}
    \cup {Obj(<<KV(S_message, v)>>) : v \in OddValues}

\* Claude: a block of content
TextBlock(text) == Obj(<<KV(S_type, PyStr(S_text)), KV(S_text, text)>>)
ToolUseBlock(nm) == Obj(<<KV(S_type, PyStr(S_tool_use)), KV(S_name, PyStr(nm))>>)
ContentBlocks ==
    {TextBlock(PyStr(S_hi)), TextBlock(PyStr(<<>>)), ToolUseBlock(S_get_weather),
     ToolUseBlock(S_other), Obj(<<KV(S_type, PyStr(S_text)), KV(S_name, PyStr(S_get_weather))>>)}

ClaudeValues ==
    {Obj(<<KV(S_content, PyList(l))>>) : l \in SeqsUpTo(ContentBlocks, MaxItems)}
    \cup {Obj(<<KV(S_content, PyList(<<TextBlock(t)>>))>>) : t \in TextValues}
    \cup {Obj(<<KV(S_content, v)>>) : v \in OddValues \cup {PyList(<<o>>) : o \in OddValues}}

\* Gemini: a part of candidates[0].content.parts
TextPart(text) == Obj(<<KV(S_text, text)>>)
CallPart(nm) == Obj(<<KV(S_functionCall, Obj(<<KV(S_name, PyStr(nm))>>))>>)
Parts ==
    {TextPart(PyStr(S_hi)), TextPart(PyStr(<<>>)), CallPart(S_get_weather),
     CallPart(S_other), Obj(<<KV(S_functionCall, PyNone)>>)}

Candidates(parts) ==
    Obj(<<KV(S_candidates, PyList(<<Obj(<<KV(S_content, Obj(<<KV(S_parts, parts)>>))>>)>>))>>)

GeminiValues ==
    {Candidates(PyList(l)) : l \in SeqsUpTo(Parts, MaxItems)}
    \cup {Candidates(PyList(<<TextPart(t)>>)) : t \in TextValues}
    \cup {Candidates(v) : v \in OddValues \cup {PyList(<<o>>) : o \in OddValues}}
    \cup {Obj(<<KV(S_candidates, v)>>) : v \in OddValues \cup {PyList(<<o>>) : o \in OddValues}}
    \cup {Obj(<<KV(S_candidates, PyList(<<Obj(<<KV(S_content, v)>>)>>))>>) : v \in OddValues}

GoodMessage == Obj(<<KV(S_role, PyStr(S_hi)), KV(S_content, PyStr(S_hi)),
                     KV(S_tool_calls, PyList(<<ToolCall(S_get_weather)>>))>>)
GoodParts == PyList(<<TextPart(PyStr(S_hi)), CallPart(S_get_weather)>>)
GoodContent == PyList(<<TextBlock(PyStr(S_hi)), ToolUseBlock(S_get_weather)>>)

\* bodies carrying the result fields of two protocols at once
MixedValues ==
    LET envelope == <<KV(S_choices, PyList(<<Obj(<<KV(S_message, GoodMessage)>>)>>)),
                      KV(S_content, GoodContent),
                      KV(S_candidates, Candidates(GoodParts).items[1].v),
                      KV(S_message, GoodMessage)>>
    IN  {Obj(<<envelope[i], envelope[j]>>) : i \in 1..4, j \in 1..4}

\* JSON that is no object, and an object with no result field
PlainValues ==
    OddValues
    \cup {PyStr(k) : k \in {S_choices, S_content, S_candidates, S_message}}
    \cup {PyList(<<PyStr(k)>>) : k \in {S_choices, S_content, S_candidates, S_message}}
    \cup {PyInt(0), PyInt(-1), PyInt(200),
          Obj(<<KV(S_error, Obj(<<KV(S_type, PyStr(S_other))>>))>>)}
    \cup {Obj(<<KV(k, PyList(<<PyInt(1)>>))>>) : k \in {S_embedding, S_embeddings, S_values}}

Values == OpenAIValues \cup OllamaValues \cup ClaudeValues \cup GeminiValues
          \cup MixedValues \cup PlainValues

\* text that is no JSON: nothing, words, a body cut short, a body with a tail
BrokenBodies ==
    {<<>>, S_other, <<"{">>, <<"[", "]", "]">>, <<"{", "}", " ", "x">>, <<"n", "u", "l">>,
     <<"0", "1">>, <<"-">>, <<"\"", "h", "i">>, <<"{", "\"", "a", "\"", "}">>,
     <<"{", "\"", "a", "\"", ":", "1", ",", "}">>, <<"[", "1", ",", "]">>}
    \cup {Take(Dumps(v), Len(Dumps(v)) - 1) : v \in MixedValues}

\* the same value written another way: no spaces, spaces and line breaks around,
\* a result field given twice
RespacedBodies ==
    LET compact == <<"{">> \o Quoted(S_choices) \o <<":", "[", "{">> \o Quoted(S_message)
                   \o <<":", "{">> \o Quoted(S_content) \o <<":">> \o Quoted(S_hi)
                   \o <<"}", "}", "]", "}">>
    IN  {compact, <<" ", "\n">> \o compact \o <<"\n">>,
         <<"{">> \o Quoted(S_message) \o <<":", "1", ",", " ">> \o Quoted(S_message)
         \o <<" ", ":", " ">> \o Dumps(GoodMessage) \o <<"}">>,
         <<"{">> \o Quoted(S_content) \o <<":", "[", "\n", "]", "}">>}

Bodies == {Dumps(v) : v \in Values} \cup BrokenBodies \cup RespacedBodies

\* the status codes: success, other 2xx, client and server errors, the transport sentinel
Codes == {200, 201, 404, 500, -1}

\* ------------------------------------------------------------- request

\* what the network does with one call of urlopen: a 2xx response, an HTTP error
\* (whose body may not be readable), or a fault with the text of its exception
NetResponse(status, text) == [kind |-> "response", status |-> status, text |-> text]
NetHTTPError(status, text, readable) ==
    [kind |-> "httperror", status |-> status, text |-> text, readable |-> readable]
NetFault(text) == [kind |-> "fault", text |-> text]
\* a response whose status line arrived and whose body cannot be read to its end or
\* is no UTF-8: res.read().decode('utf-8') raises, with this text
NetUnreadable(status, text) == [kind |-> "unreadable", status |-> status, text |-> text]

S_timed_out == <<"t", "i", "m", "e", "d", " ", "o", "u", "t">>
S_refused == <<"r", "e", "f", "u", "s", "e", "d">>
S_codec == <<"c", "o", "d", "e", "c">>

NetEvents ==
    {NetResponse(200, b) : b \in Bodies}
    \cup {NetResponse(201, Dumps(v)) : v \in MixedValues}
    \cup {NetHTTPError(st, b, r) : st \in {404, 500}, b \in {<<>>, S_other, Dumps(GoodMessage)},
                                   r \in BOOLEAN}
    \cup {NetFault(S_timed_out), NetFault(S_refused)}
    \cup {NetUnreadable(st, t) : st \in {200, 201}, t \in {S_codec, S_timed_out}}

\* what a call of request ends in: a returned (status, body) pair
Returned(status, text) == [outcome |-> "return", code |-> status, body |-> text]

\* mutant: e.read() of an HTTP error outside any try, so that its failure leaves request
request_unguarded_read(ev) ==
    CASE ev.kind = "response" -> Returned(ev.status, ev.text)
      [] ev.kind = "httperror" ->
            IF ev.readable THEN Returned(ev.status, ev.text) ELSE Raised("OSError")
      [] ev.kind = "fault" -> Returned(-1, ev.text)
      [] ev.kind = "unreadable" -> Returned(-1, ev.text)

\* request(url, method, headers, data, timeout), for a well-formed url, by the
\* network event that answers it
request(ev) ==
    CASE ev.kind = "response" -> Returned(ev.status, ev.text)
      [] ev.kind = "httperror" -> Returned(ev.status, IF ev.readable THEN ev.text ELSE <<>>)
      [] ev.kind = "fault" -> Returned(-1, ev.text)
      [] ev.kind = "unreadable" -> Returned(-1, ev.text)

\* -------------------------------------------------------------- test_all

DEFAULT_MODEL == "code-small"
SWITCH_MODEL == "claude-haiku-4.5"
GROUP_NAME == "glm"
GROUP_MODEL == "claude-haiku-4.5"

EMBED_MODEL == "embed"
API_KEY == "cs-TosCz7A29R74yNnShYQKskxXPx9OSYd1RMQV5YzVdHvqL7ehNNoOhCVg7UTp6"
BASE_URL == "http://localhost:11435"

\* ----------------------------------------------------- building a request
\* The values the script builds and sends are Python values as above; their keys and
\* texts are never taken apart and are written as strings.

\* request, lines 61-72: the header mapping and the body handed to urllib.  A mapping
\* given by the caller is updated in place, so .headers is also the caller's mapping
\* after the call; .own tells whether there is such a mapping.
request_prepare(h, d) ==
    LET given == IF h = PyNone THEN <<>> ELSE h.items
        fixed == DictSet(DictSet(given, "User-Agent", PyStr("ChatspeedTest/2.0")),
                         "Accept", PyStr("*/*"))
        structured == Truthy(d) /\ d.t \in {"dict", "list"}
    IN  [headers |-> PyDict(IF structured
                            THEN DictSet(fixed, "Content-Type", PyStr("application/json"))
                            ELSE fixed),
         own |-> h # PyNone,
         body |-> IF structured THEN [encoded |-> "json", of |-> d]
                  ELSE IF Truthy(d) THEN [encoded |-> "utf-8", of |-> d]
                  ELSE [encoded |-> "no", of |-> d]]

\* the schema of the one parameter, as all three declarations write it
LocSchema ==
    Obj(<<KV("type", PyStr("object")),
          KV("properties",
             Obj(<<KV("loc", Obj(<<KV("type", PyStr("string")),
                                   KV("description",
                                      PyStr("The city and state, e.g. New York, NY"))>>))>>)),
          KV("required", PyList(<<PyStr("loc")>>))>>)

T_DEF_OPENAI ==
    PyList(<<Obj(<<KV("type", PyStr("function")),
                   KV("function",
                      Obj(<<KV("name", PyStr("get_weather")),
                            KV("description",
                               PyStr("Get the current weather for a specific location")),
                            KV("parameters", LocSchema)>>))>>)>>)

\* mutant: Claude given the declaration in the OpenAI wrapper
T_DEF_CLAUDE_wrapped == T_DEF_OPENAI

T_DEF_CLAUDE ==
    PyList(<<Obj(<<KV("name", PyStr("get_weather")),
                   KV("description", PyStr("Get the current weather for a specific location")),
                   KV("input_schema", LocSchema)>>)>>)

T_DEF_GEMINI ==
    PyList(<<Obj(<<KV("functionDeclarations",
                      PyList(<<Obj(<<KV("name", PyStr("get_weather")),
                                     KV("description",
                                        PyStr("Get the current weather for a specific location")),
                                     KV("parameters", LocSchema)>>)>>))>>)>>)

\* mutant: the greeting in both scenarios
prompt_greeting(is_tool) == "Hello, say 'Hi'"

\* build_data's prompt
prompt(is_tool) ==
    IF is_tool THEN "Get weather for New York. Use the get_weather tool."
    ELSE "Hello, say 'Hi'"

\* build_data(protocol, model, is_tool); d["tools"] = ... is the last key set
build_data(protocol, model, is_tool) ==
    LET messages == PyList(<<Obj(<<KV("role", PyStr("user")),
                                   KV("content", PyStr(prompt(is_tool)))>>)>>)
        chat == <<KV("model", PyStr(model)), KV("messages", messages),
                  KV("stream", PyBool(FALSE))>>
        WithTools(items, tools) == PyDict(IF is_tool THEN DictSet(items, "tools", tools)
                                          ELSE items)
    IN  CASE protocol = "openai" -> WithTools(chat, T_DEF_OPENAI)
          [] protocol = "claude" ->
                WithTools(<<KV("model", PyStr(model)), KV("max_tokens", PyInt(1024)),
                            KV("messages", messages), KV("stream", PyBool(FALSE))>>,
                          T_DEF_CLAUDE)
          [] protocol = "gemini" ->
                WithTools(<<KV("contents",
                               PyList(<<Obj(<<KV("role", PyStr("user")),
                                              KV("parts",
                                                 PyList(<<Obj(<<KV("text", PyStr(prompt(is_tool)))>>)>>))
                                            >>)>>))>>,
                          T_DEF_GEMINI)
          [] protocol = "ollama" -> WithTools(chat, T_DEF_OPENAI)
          [] OTHER -> PyNone

\* the (prefix, model, is_compat) tuples of test_protocol_matrix, in order
matrix ==
    <<[prefix |-> "", model |-> DEFAULT_MODEL, is_compat |-> FALSE],
      [prefix |-> "/switch", model |-> SWITCH_MODEL, is_compat |-> FALSE],
      [prefix |-> "/switch/compat", model |-> SWITCH_MODEL, is_compat |-> TRUE],
      [prefix |-> "/" \o GROUP_NAME, model |-> GROUP_MODEL, is_compat |-> FALSE],
      [prefix |-> "/" \o GROUP_NAME \o "/compat", model |-> GROUP_MODEL, is_compat |-> TRUE]>>

\* the (path, label) pairs of the model listing
list_tests ==
    <<[path |-> "/v1/models", label |-> "OpenAI List"],
      [path |-> "/api/tags", label |-> "Ollama Tags"],
      [path |-> "/v1beta/models", label |-> "Gemini Models"],
      [path |-> "/" \o GROUP_NAME \o "/v1/models", label |-> "Grouped List"],
      [path |-> "/switch/v1/models", label |-> "Switch List"]>>

\* the embedding calls, each with the texts whose presence in the body passes it,
\* the rest of its URL, its data, and whether it is given test_all's oa_h
embed_tests ==
    LET input == Obj(<<KV("model", PyStr(EMBED_MODEL)), KV("input", PyStr("hello"))>>)
    IN  <<[path |-> "/v1/embeddings", label |-> "OpenAI Embed",
           needles |-> {Quoted(S_embedding)}, query |-> <<>>, shared |-> TRUE, data |-> input],
          [path |-> "/v1beta/models/embed:embedContent", label |-> "Gemini Embed",
           needles |-> {Quoted(S_values)}, query |-> <<"?key=", API_KEY>>, shared |-> FALSE,
           data |-> Obj(<<KV("content",
                             Obj(<<KV("parts",
                                      PyList(<<Obj(<<KV("text", PyStr("hello"))>>)>>))>>))>>)],
          [path |-> "/api/embed", label |-> "Ollama Embed",
           needles |-> {Quoted(S_embeddings), Quoted(S_embedding)}, query |-> <<>>,
           shared |-> TRUE, data |-> input]>>

\* mutant: the order of the module docstring, Gemini before Ollama
protocol_runs_docstring_order ==
    <<[name |-> "OpenAI", protocol |-> "openai", base_path |-> "/v1/chat/completions"],
      [name |-> "Claude", protocol |-> "claude", base_path |-> "/v1/messages"],
      [name |-> "Gemini", protocol |-> "gemini", base_path |-> "/v1beta/models"],
      [name |-> "Ollama", protocol |-> "ollama", base_path |-> "/api/chat"]>>

\* the calls of test_protocol_matrix in test_all, in order
protocol_runs ==
    <<[name |-> "OpenAI", protocol |-> "openai", base_path |-> "/v1/chat/completions"],
      [name |-> "Claude", protocol |-> "claude", base_path |-> "/v1/messages"],
      [name |-> "Ollama", protocol |-> "ollama", base_path |-> "/api/chat"],
      [name |-> "Gemini", protocol |-> "gemini", base_path |-> "/v1beta/models"]>>

Protocols == {protocol_runs[i].protocol : i \in 1..Len(protocol_runs)}

\* the cases of one test_protocol_matrix call: per tuple of matrix the text test, then
\* the tool test
CasesPerRun == 2 * Len(matrix)
NListing == Len(list_tests)
NEmbed == Len(embed_tests)
NChat == Len(protocol_runs) * CasesPerRun
NCases == NListing + NEmbed + NChat

\* the i-th case test_all runs: what it is and the url and data it gives to request
\* (the url as the pieces its f-string puts together)
Case(i) ==
    IF i <= NListing
    THEN [phase |-> "listing", method |-> "GET", path |-> list_tests[i].path,
          label |-> list_tests[i].label,
          url |-> <<BASE_URL, list_tests[i].path>>, data |-> PyNone]
    ELSE IF i <= NListing + NEmbed
    THEN [phase |-> "embedding", method |-> "POST", path |-> embed_tests[i - NListing].path,
          label |-> embed_tests[i - NListing].label,
          url |-> <<BASE_URL, embed_tests[i - NListing].path>>
                  \o embed_tests[i - NListing].query,
          data |-> embed_tests[i - NListing].data]
    ELSE LET j == i - NListing - NEmbed - 1
             run == protocol_runs[(j \div CasesPerRun) + 1]
             k == j % CasesPerRun
             row == matrix[(k \div 2) + 1]
         IN  [phase |-> "chat", method |-> "POST", protocol |-> run.protocol,
              prefix |-> row.prefix, model |-> row.model, row_compat |-> row.is_compat,
              scenario |-> IF k % 2 = 0 THEN "text" ELSE "tool",
              path |-> row.prefix \o run.base_path,
              url |-> IF run.protocol = "gemini"
                      THEN <<BASE_URL, row.prefix, run.base_path, "/", row.model,
                             ":generateContent?key=", API_KEY>>
                      ELSE <<BASE_URL, row.prefix, run.base_path>>,
              data |-> build_data(run.protocol, row.model, k % 2 = 1)]

\* oa_h and cl_h as test_all and test_protocol_matrix create them
New_oa_h == PyDict(<<KV("Authorization", PyStr("Bearer " \o API_KEY))>>)
\* mutant: the Claude run given the bearer mapping
New_cl_h_bearer == New_oa_h

New_cl_h == PyDict(<<KV("x-api-key", PyStr(API_KEY)),
                     KV("anthropic-version", PyStr("2023-06-01"))>>)

\* the line a case prints for the (code, body) its request returned:
\* the listing prints [PASS] whatever came back
ListingLine(c, code, text) == [tag |-> "PASS", label |-> c.label, code |-> code]

\* an embedding case passes when the body holds one of its needles
EmbedLine(i, c, code, text) ==
    [tag |-> IF \E n \in embed_tests[i - NListing].needles : IsSubstring(n, text)
             THEN "PASS" ELSE "FAIL",
     label |-> c.label]

\* mutant: the text test called with the row's is_compat
RunnerVerdict_compat_on_text(c, code, text) ==
    IF c.scenario = "text"
    THEN Validate(c.protocol, code, text, FALSE, c.row_compat)
    ELSE Validate(c.protocol, code, text, TRUE, c.row_compat)

\* validator(c, b, False, False) for the text test, validator(c, b, True, is_compat)
\* for the tool test
RunnerVerdict(c, code, text) ==
    IF c.scenario = "text"
    THEN Validate(c.protocol, code, text, FALSE, FALSE)
    ELSE Validate(c.protocol, code, text, TRUE, c.row_compat)

ChatLine(c, v) ==
    [tag |-> IF v.passed THEN "PASS" ELSE "FAIL", scenario |-> c.scenario,
     prefix |-> c.prefix, msg |-> v.msg]

\* ----------------------------------------------------------------- state

VARIABLES
    resp,       \* validator harness: the (code, body) handed to a validator
    args,       \* harnesses: the function called and its arguments
    verdict,    \* harnesses: what the call ended in
    pc,         \* test_all: "send", "wait", "answered", "done", "aborted" ("off": not running)
    idx,        \* test_all: the number of cases finished
    sent,       \* test_all: the requests issued so far, in order
    net,        \* test_all: the network event that answers the outstanding request
    answer,     \* test_all: what request returned to the case that finished last
    line,       \* test_all: the line printed last
    printed,    \* test_all: the number of [PASS] / [FAIL] lines printed
    oa_h,       \* test_all: its header mapping
    headers,    \* test_protocol_matrix: the mapping of the run (its oa_h or cl_h)
    headers_to_use  \* test_protocol_matrix: the mapping of the iteration

vars == <<resp, args, verdict, pc, idx, sent, net, answer, line, printed,
          oa_h, headers, headers_to_use>>

harness == <<resp, args, verdict>>
runner == <<pc, idx, sent, net, answer, line, printed, oa_h, headers, headers_to_use>>

None == [outcome |-> "none"]

\* ---- the validators, called on every (code, body) with every flag

Init ==
    /\ resp \in [code : Codes, body : Bodies]
    /\ args = None
    /\ verdict = None
    /\ pc = "off" /\ idx = 0 /\ sent = <<>> /\ net = None /\ answer = None /\ line = None
    /\ printed = 0
    /\ oa_h = None /\ headers = None /\ headers_to_use = None

Call ==
    \E p \in Protocols, t \in BOOLEAN, c \in BOOLEAN :
        /\ args = None
        /\ args' = [validator |-> p, is_tool |-> t, is_compat |-> c]
        /\ verdict' = Validate(p, resp.code, resp.body, t, c)
        /\ UNCHANGED <<resp, runner>>

Next == Call

Spec == Init /\ [][Next]_vars

\* ---- request's preparation and build_data, called on every argument

\* headers=None or a mapping of some of the entries a caller may give, in the order
\* it writes them; data=None, empty or not, structured or text
RequestArgs ==
    LET entries == <<KV("Authorization", PyStr("Bearer k")),
                     KV("User-Agent", PyStr("mine/1.0")), KV("Accept", PyStr("text/plain")),
                     KV("Content-Type", PyStr("text/plain")), KV("X-Trace", PyStr("1"))>>
    IN  [op : {"request"},
         headers : {PyNone} \cup {PyDict(SelectSeq(entries, LAMBDA e : e.k \in K)) :
                                     K \in SUBSET {entries[i].k : i \in 1..Len(entries)}},
         data : {PyNone, PyDict(<<>>), Obj(<<KV("a", PyInt(1))>>), PyList(<<>>),
                 PyList(<<PyInt(1)>>), PyStr(<<>>), PyStr(S_hi)}]

\* the four protocols and one that is none of them; the configured models and others
BuildArgs ==
    [op : {"build_data"},
     protocol : Protocols \cup {"other"},
     model : {DEFAULT_MODEL, SWITCH_MODEL, "", "gpt-x"},
     is_tool : BOOLEAN]

UnitInit ==
    /\ args \in RequestArgs \cup BuildArgs
    /\ verdict = None
    /\ resp = None
    /\ pc = "off" /\ idx = 0 /\ sent = <<>> /\ net = None /\ answer = None /\ line = None
    /\ printed = 0
    /\ oa_h = None /\ headers = None /\ headers_to_use = None

\* request(url, method, args.headers, args.data) up to the call of urlopen
CallRequest ==
    /\ args.op = "request" /\ verdict = None
    /\ verdict' = request_prepare(args.headers, args.data)
    /\ UNCHANGED <<resp, args, runner>>

CallBuildData ==
    /\ args.op = "build_data" /\ verdict = None
    /\ verdict' = [outcome |-> "return",
                   v |-> build_data(args.protocol, args.model, args.is_tool)]
    /\ UNCHANGED <<resp, args, runner>>

UnitNext == CallRequest \/ CallBuildData

UnitSpec == UnitInit /\ [][UnitNext]_vars

\* ---- test_all, against a gateway that answers each request in any way

RunInit ==
    /\ pc = "send" /\ idx = 0 /\ sent = <<>> /\ net = None /\ answer = None /\ line = None
    /\ printed = 0
    /\ oa_h = New_oa_h /\ headers = None /\ headers_to_use = None
    /\ resp = None /\ args = None /\ verdict = None

\* The next case begins and request(...) is entered: a test_protocol_matrix call
\* that starts makes its mappings, an iteration that starts picks headers_to_use,
\* request updates the mapping it is given and the request goes out.  The c, b, ok
\* and msg of the case before are not read again: they are overwritten when this
\* call returns, and are dropped here.
Send ==
    /\ pc = "send"
    /\ \E c \in {Case(idx + 1)} :
       \E run_h \in {IF c.phase # "chat" THEN headers
                     ELSE IF (idx - NListing - NEmbed) % CasesPerRun # 0 THEN headers
                     ELSE IF c.protocol = "claude" THEN New_cl_h ELSE New_oa_h} :
       \E given \in {CASE c.phase = "listing" -> oa_h
                       [] c.phase = "embedding" ->
                             IF embed_tests[idx + 1 - NListing].shared THEN oa_h
                             ELSE PyDict(<<>>)
                       [] c.phase = "chat" ->
                             IF c.scenario = "tool" THEN headers_to_use
                             ELSE IF c.protocol = "gemini" THEN PyDict(<<>>) ELSE run_h} :
       \E p \in {request_prepare(given, c.data)} :
           /\ sent' = Append(sent, c @@ [given |-> given, headers |-> p.headers,
                                         body |-> p.body])
           /\ oa_h' = IF c.phase = "listing"
                         \/ (c.phase = "embedding" /\ embed_tests[idx + 1 - NListing].shared)
                      THEN p.headers ELSE oa_h
           /\ headers' = IF c.phase = "chat" /\ c.protocol # "gemini" THEN p.headers
                         ELSE run_h
           /\ headers_to_use' = IF c.phase = "chat" THEN p.headers ELSE headers_to_use
    /\ pc' = "wait"
    /\ answer' = None
    /\ line' = None
    /\ UNCHANGED <<idx, net, printed, harness>>

\* the network answers the outstanding request: urlopen gets a response, an HTTP
\* error or a fault (a timeout after 30 seconds at the latest)
Answer ==
    \E ev \in NetEvents :
        /\ pc = "wait"
        /\ net' = ev
        /\ pc' = "answered"
        /\ UNCHANGED <<idx, sent, answer, line, printed, harness>>
        /\ UNCHANGED <<oa_h, headers, headers_to_use>>

\* request(...) returns, the case is judged and its line printed; an exception
\* leaving request or the validator ends the run
Receive ==
    /\ pc = "answered"
    /\ \E c \in {Case(idx + 1)}, r \in {request(net)} :
       \E v \in {IF r.outcome = "return" /\ c.phase = "chat"
                  THEN RunnerVerdict(c, r.code, r.body) ELSE None} :
           IF r.outcome = "raise" \/ v.outcome = "raise"
           THEN /\ pc' = "aborted"
                /\ answer' = r
                /\ UNCHANGED <<idx, line, printed>>
           ELSE /\ answer' = r
                /\ line' = CASE c.phase = "listing" -> ListingLine(c, r.code, r.body)
                             [] c.phase = "embedding" -> EmbedLine(idx + 1, c, r.code, r.body)
                             [] c.phase = "chat" -> ChatLine(c, v)
                /\ printed' = printed + 1
                /\ idx' = idx + 1
                /\ pc' = IF idx + 1 = NCases THEN "done" ELSE "send"
    /\ net' = None
    /\ UNCHANGED <<sent, oa_h, headers, headers_to_use, harness>>

RunNext == Send \/ Answer \/ Receive

RunSpec == RunInit /\ [][RunNext]_vars

\* Receive has no guard but its position and always clears net, so it is enabled
\* exactly in the states where pc = "answered"
ReceiveFair == []<>(pc # "answered") \/ []<><<Receive>>_vars

\* the script runs on, and each call of urlopen ends (timeout = 30); ReceiveFair is
\* WF_vars(Receive) with its enabling condition written out
RunLive == RunSpec /\ WF_vars(Send) /\ WF_vars(Answer) /\ ReceiveFair

\* ---------------------------------------------- reading a parsed response

\* x[k] where x is an object that has the key, Absent anywhere else
At(x, k) == IF x.t = "dict" /\ HasKey(x, k) THEN Lookup(x, k) ELSE Absent

\* x[0] where x is a list that has one, Absent anywhere else
First(x) == IF x.t = "list" /\ Len(x.l) > 0 THEN x.l[1] ELSE Absent

\* the top-level result field of each protocol
EnvelopeField(p) ==
    CASE p = "openai" -> S_choices
      [] p = "claude" -> S_content
      [] p = "gemini" -> S_candidates
      [] p = "ollama" -> S_message

\* an object with protocol a's result field
ShapedAs(a, d) == d.t = "dict" /\ HasKey(d, EnvelopeField(a))

\* the assistant message (OpenAI, Ollama), the content list (Claude), the parts (Gemini)
Payload(p, d) ==
    CASE p = "openai" -> At(First(At(d, S_choices)), S_message)
      [] p = "ollama" -> At(d, S_message)
      [] p = "claude" -> At(d, S_content)
      [] p = "gemini" -> At(At(First(At(d, S_candidates)), S_content), S_parts)

\* the text field: message.content, or the text of the first block / part
TextField(p, d) ==
    IF p \in {"openai", "ollama"}
    THEN At(Payload(p, d), S_content)
    ELSE At(First(Payload(p, d)), S_text)

\* the list in which the protocol carries its tool calls
ToolList(p, d) ==
    IF p \in {"openai", "ollama"} THEN At(Payload(p, d), S_tool_calls) ELSE Payload(p, d)

\* entry e of that list names get_weather
NamesTool(p, e) ==
    CASE p \in {"openai", "ollama"} -> EqStr(At(At(e, S_function), S_name), S_get_weather)
      [] p = "claude" -> EqStr(At(e, S_type), S_tool_use) /\ EqStr(At(e, S_name), S_get_weather)
      [] p = "gemini" -> EqStr(At(At(e, S_functionCall), S_name), S_get_weather)

ToolNamedAt(p, d, i) ==
    LET l == ToolList(p, d) IN l.t = "list" /\ i <= Len(l.l) /\ NamesTool(p, l.l[i])

\* some entry, at any position, names get_weather
ToolNamed(p, d) ==
    LET l == ToolList(p, d) IN l.t = "list" /\ \E i \in 1..Len(l.l) : NamesTool(p, l.l[i])

NonEmptyText(v) == v.t = "str" /\ Len(v.s) > 0

TextOrNothing(v) == v.t \in {"absent", "None", "str"}

\* an entry of the tool-call list in the protocol's form
EntryWellFormed(p, e) ==
    /\ e.t = "dict"
    /\ CASE p \in {"openai", "ollama"} ->
                At(e, S_function).t = "dict" /\ At(At(e, S_function), S_name).t = "str"
         [] p = "claude" ->
                /\ At(e, S_type).t = "str"
                /\ TextOrNothing(At(e, S_text))
                /\ At(e, S_name).t \in {"absent", "str"}
         [] p = "gemini" ->
                /\ TextOrNothing(At(e, S_text))
                /\ \/ At(e, S_functionCall).t = "absent"
                   \/ /\ At(e, S_functionCall).t = "dict"
                      /\ At(At(e, S_functionCall), S_name).t = "str"

\* a well-formed envelope of protocol p: the result field leads to a message
\* (a text that is a string, null or left out, tool calls that are a list of
\* well-formed entries, null or left out) or to a list of well-formed blocks / parts,
\* and no OpenAI 'choices' beside a Gemini or Ollama envelope
WellFormed(p, d) ==
    /\ d.t = "dict"
    /\ p \in {"gemini", "ollama"} => ~HasKey(d, S_choices)
    /\ IF p \in {"openai", "ollama"}
       THEN /\ Payload(p, d).t = "dict"
            /\ TextOrNothing(TextField(p, d))
            /\ \/ ToolList(p, d).t \in {"absent", "None"}
               \/ /\ ToolList(p, d).t = "list"
                  /\ \A i \in 1..Len(ToolList(p, d).l) : EntryWellFormed(p, ToolList(p, d).l[i])
       ELSE /\ Payload(p, d).t = "list"
            /\ \A i \in 1..Len(Payload(p, d).l) : EntryWellFormed(p, Payload(p, d).l[i])

\* ------------------------------------------------- the validators' claims

Called == args # None

\* the call under way is of a validator on a status-200 body that parses
Parses == Called /\ resp.code = 200 /\ json_loads(resp.body).ok

Data == json_loads(resp.body).v

\* C1: a status other than 200 (the transport sentinel -1 included) makes every
\* validator return passed = false with the "HTTP <code>: <body[:100]>" message,
\* which holds the status code, for every body and both flags; the body is not
\* parsed for it: a body that is no JSON gets the same verdict.
C1_NonOkStatusFails ==
    (Called /\ resp.code # 200) =>
        /\ verdict.outcome = "return"
        /\ verdict.passed = FALSE
        /\ verdict.msg.kind = "HTTP"
        /\ verdict.msg.body = Take(resp.body, 100)
        /\ IsSubstring(IntText(resp.code), verdict.msg.text)

C1_Witness ==
    /\ Called /\ resp.code = -1 /\ ~json_loads(resp.body).ok
    /\ args.is_compat /\ ~args.is_tool
    /\ verdict.outcome = "return" /\ verdict.msg.kind = "HTTP"

\* the value read from the body cannot be navigated to the validator's payload:
\* it is null, a number or a boolean, or the result field does not lead to a
\* message (an empty list, a null, a missing or null nested key)
NotNavigable(p, d) ==
    \/ d.t \in {"None", "int", "bool"}
    \/ /\ ShapedAs(p, d)
       /\ p \in {"gemini", "ollama"} => ~HasKey(d, S_choices)
       /\ CASE p \in {"openai", "ollama"} -> Payload(p, d).t # "dict"
            [] p = "gemini" -> Payload(p, d).t = "absent"
            [] p = "claude" -> Payload(p, d).t = "list" /\ First(Payload(p, d)).t
                                                             \notin {"absent", "dict"}

\* C2: a validator never raises: every call returns a (passed, message) pair; with
\* status 200 and a body that is no JSON or cannot be navigated, the pair is
\* passed = false with the text of the exception.
C2_NeverRaises ==
    Called =>
        /\ verdict.outcome = "return"
        /\ verdict.passed \in BOOLEAN
        /\ (resp.code = 200 /\ ~json_loads(resp.body).ok) =>
               verdict = Verdict(FALSE, MsgException("JSONDecodeError"))
        /\ (Parses /\ NotNavigable(args.validator, Data)) =>
               /\ verdict.passed = FALSE
               /\ verdict.msg.kind = "Exception"
               /\ verdict.msg.e \in {"TypeError", "KeyError", "IndexError", "AttributeError"}

C2_Witness ==
    /\ Parses /\ args.validator = "openai"
    /\ ShapedAs("openai", Data) /\ At(Data, S_choices) = PyList(<<>>)
    /\ verdict = Verdict(FALSE, MsgException("IndexError"))

\* the body is an object shaped as some protocol other than b, and not as b
ForeignTo(b, d) ==
    /\ ~ShapedAs(b, d)
    /\ \E a \in Protocols \ {b} : ShapedAs(a, d)

\* C3: a status-200 body shaped as protocol A's envelope and not as B's never passes
\* B's validator, whatever the flags and whatever text or tool call it carries.
C3_NoFalsePass ==
    (Parses /\ ForeignTo(args.validator, Data)) =>
        verdict.outcome = "return" /\ verdict.passed = FALSE

C3_Witness ==
    /\ Parses /\ args.validator = "ollama" /\ ForeignTo("ollama", Data)
    /\ WellFormed("openai", Data) /\ ToolNamed("openai", Data)
    /\ NonEmptyText(TextField("openai", Data))
    /\ verdict.outcome = "return" /\ verdict.passed = FALSE

\* C4, as claimed: every such body gets a protocol-mismatch message from B's
\* validator, never a "Missing ..." message
C4_MismatchDiagnosed ==
    (/\ Parses /\ ForeignTo(args.validator, Data)
     /\ \E a \in Protocols \ {args.validator} :
            WellFormed(a, Data) /\ NonEmptyText(TextField(a, Data))) =>
        verdict.outcome = "return" /\ verdict.msg.kind = "ProtocolError"

\* C5, as claimed: in the tool branch a well-formed envelope passes exactly when
\* some entry of the tool-call list, at any position, names get_weather
C5_ToolAtAnyPosition ==
    (Parses /\ WellFormed(args.validator, Data) /\ (args.is_tool \/ args.is_compat)) =>
        (verdict.passed <=> ToolNamed(args.validator, Data))

\* C6: in the text branch (both flags false) a well-formed envelope passes exactly
\* when its text field is a non-empty string; a text that is empty, null or left
\* out gives passed = false with "Empty content", not the text of an exception.
C6_TextBranch ==
    (Parses /\ WellFormed(args.validator, Data) /\ ~args.is_tool /\ ~args.is_compat) =>
        /\ verdict.outcome = "return"
        /\ verdict.passed <=> NonEmptyText(TextField(args.validator, Data))
        /\ verdict.passed => verdict.msg.kind = "Text"
        /\ ~verdict.passed => verdict.msg = MsgEmpty /\ verdict.msg.kind # "Exception"

C6_Witness ==
    /\ Parses /\ WellFormed(args.validator, Data) /\ ~args.is_tool /\ ~args.is_compat
    /\ args.validator = "claude"
    /\ TextField("claude", Data) = PyNone
    /\ verdict = Verdict(FALSE, MsgEmpty)

\* ---------------------------------------------------- the runner's claims

\* a case has just been judged and its line printed
Judged == pc \in {"send", "done"} /\ line # None

\* that case
Last == Case(idx)

\* that case is a chat case whose request got a status-200 body that parses
ChatJudged ==
    /\ Judged /\ Last.phase = "chat"
    /\ answer.code = 200 /\ json_loads(answer.body).ok

Answered == json_loads(answer.body).v

HealthyText(p, d) ==
    /\ d.t = "dict"
    /\ p \in {"gemini", "ollama"} => ~HasKey(d, S_choices)
    /\ NonEmptyText(TextField(p, d))

\* C8: for each protocol and each of the five prefixes, a text test answered with
\* status 200 and the protocol's envelope carrying non-empty text is reported PASS.
C8_HealthyTextPasses ==
    (ChatJudged /\ Last.scenario = "text" /\ HealthyText(Last.protocol, Answered)) =>
        line.tag = "PASS" /\ line.msg.kind = "Text"

C8_Witness ==
    /\ ChatJudged /\ Last.scenario = "text" /\ HealthyText(Last.protocol, Answered)
    /\ Last.protocol = "openai" /\ Last.prefix = "/glm/compat" /\ Last.row_compat
    /\ line.tag = "PASS"

\* the order the claim gives
C9_Protocols == <<"openai", "claude", "ollama", "gemini">>
C9_Prefixes == <<"", "/switch", "/switch/compat", "/glm", "/glm/compat">>
C9_Scenarios == <<"text", "tool">>

ChatSent == SelectSeq(sent, LAMBDA r : r.phase = "chat")

\* C9: the chat requests go out in a fixed order: the protocols OpenAI, Claude,
\* Ollama, Gemini; for each, ten requests, by prefix '', /switch, /switch/compat,
\* /glm, /glm/compat and within a prefix text then tool; no request is issued
\* twice; a request goes out only after the line of the case before is printed, so
\* at most one is outstanding.
C9_FixedOrder ==
    /\ Len(ChatSent) <= 40
    /\ \A n \in 1..Len(ChatSent) :
           /\ ChatSent[n].protocol = C9_Protocols[((n - 1) \div 10) + 1]
           /\ ChatSent[n].prefix = C9_Prefixes[(((n - 1) % 10) \div 2) + 1]
           /\ ChatSent[n].scenario = C9_Scenarios[((n - 1) % 2) + 1]
    /\ \A i, j \in 1..Len(sent) : i # j => sent[i] # sent[j]
    /\ printed = IF pc \in {"wait", "answered"} THEN Len(sent) - 1 ELSE Len(sent)
    /\ pc = "done" => Len(ChatSent) = 40

C9_Witness ==
    /\ pc = "done" /\ Len(ChatSent) = 40
    /\ ChatSent[40].protocol = "gemini" /\ ChatSent[40].scenario = "tool"

\* C10: whatever the outcome of each case, test_all reaches "Testing Completed" with
\* the 5 listing, 3 embedding and 40 chat cases run and a line printed for each.
C10_SweepCompletes ==
    <>(/\ pc = "done"
       /\ printed = 48
       /\ Len(SelectSeq(sent, LAMBDA r : r.phase = "listing")) = 5
       /\ Len(SelectSeq(sent, LAMBDA r : r.phase = "embedding")) = 3
       /\ Len(ChatSent) = 40)

\* a transport fault in the first chat case, and the runner about to issue the next
C10_Witness ==
    /\ pc = "send" /\ idx = NListing + NEmbed + 1
    /\ answer.code = -1 /\ line.tag = "FAIL"

\* C11, as claimed: a case whose request ended in a transport fault or a status other
\* than 200 is printed [FAIL], whichever phase (listing, embedding, chat) it is in
C11_FaultsFail ==
    (Judged /\ answer.code # 200) => line.tag = "FAIL"

\* ------------------------------------------------------ request's claims

\* C12, as claimed: request returns a pair for every outcome: a 2xx response gives
\* its status and body, an HTTP error its status and its body (empty when it cannot
\* be read), a network fault -1 and the exception text; and -1 is never returned
\* for a response that carried a status
C12_TransportResult ==
    [][pc = "answered" =>
          /\ answer'.outcome = "return"
          /\ net.kind = "response" => answer' = Returned(net.status, net.text)
          /\ net.kind = "httperror" =>
                 answer' = Returned(net.status, IF net.readable THEN net.text ELSE <<>>)
          /\ net.kind = "fault" => answer' = Returned(-1, net.text)
          /\ answer'.code = -1 => net.kind = "fault"]_vars

\* request was called on args and has prepared what goes out
Prepared == pc = "off" /\ args # None /\ args.op = "request" /\ verdict # None

\* the data given is a non-empty dict or list
Structured == args.data.t \in {"dict", "list"} /\ Truthy(args.data)

\* C13, as claimed: what goes out carries User-Agent, Accept and every header of the
\* caller; the caller's value wins for User-Agent and Accept (and any other key),
\* except that the Content-Type of structured data is application/json whatever the
\* caller gave
C13_CallerHeadersOnTop ==
    Prepared =>
        /\ HasKey(verdict.headers, "User-Agent") /\ HasKey(verdict.headers, "Accept")
        /\ Structured => Lookup(verdict.headers, "Content-Type") = PyStr("application/json")
        /\ args.headers # PyNone =>
               \A i \in 1..Len(args.headers.items) :
                   LET e == args.headers.items[i]
                   IN  /\ HasKey(verdict.headers, e.k)
                       /\ ~(Structured /\ e.k = "Content-Type") =>
                              Lookup(verdict.headers, e.k) = e.v

\* ---------------------------------------------------- build_data's claims

\* build_data was called on args, for one of the four protocols
Built ==
    /\ pc = "off" /\ args # None /\ args.op = "build_data" /\ verdict # None
    /\ args.protocol \in Protocols

Keys(x) == {x.items[i].k : i \in 1..Len(x.items)}

\* the list holds one object, with exactly these keys
OneObject(x, keys) ==
    x.t = "list" /\ Len(x.l) = 1 /\ x.l[1].t = "dict" /\ Keys(x.l[1]) = keys

\* the tools are one declaration in the shape of protocol p
NativeShape(p, tools) ==
    CASE p \in {"openai", "ollama"} ->
            /\ OneObject(tools, {"type", "function"})
            /\ At(tools.l[1], "type") = PyStr("function")
            /\ At(tools.l[1], "function").t = "dict"
            /\ Keys(At(tools.l[1], "function")) = {"name", "description", "parameters"}
      [] p = "claude" -> OneObject(tools, {"name", "description", "input_schema"})
      [] p = "gemini" ->
            /\ OneObject(tools, {"functionDeclarations"})
            /\ OneObject(At(tools.l[1], "functionDeclarations"),
                         {"name", "description", "parameters"})

\* the declaration itself, and the schema of its parameters
Declaration(p, tools) ==
    CASE p \in {"openai", "ollama"} -> At(First(tools), "function")
      [] p = "claude" -> First(tools)
      [] p = "gemini" -> First(At(First(tools), "functionDeclarations"))

Schema(p, tools) ==
    At(Declaration(p, tools), IF p = "claude" THEN "input_schema" ELSE "parameters")

\* C14: with is_tool = true the body's 'tools' is one declaration in the protocol's
\* own shape, named get_weather, whose one parameter loc is a string and required;
\* with is_tool = false the body has no 'tools'; for every protocol and model name.
C14_OneToolDeclared ==
    Built =>
        IF args.is_tool
        THEN LET tools == At(verdict.v, "tools")
                 schema == Schema(args.protocol, tools)
             IN  /\ NativeShape(args.protocol, tools)
                 /\ At(Declaration(args.protocol, tools), "name") = PyStr("get_weather")
                 /\ At(schema, "type") = PyStr("object")
                 /\ At(schema, "properties").t = "dict"
                 /\ Keys(At(schema, "properties")) = {"loc"}
                 /\ At(At(At(schema, "properties"), "loc"), "type") = PyStr("string")
                 /\ At(schema, "required") = PyList(<<PyStr("loc")>>)
        ELSE verdict.v.t = "dict" /\ ~HasKey(verdict.v, "tools")

C14_Witness ==
    /\ Built /\ args.is_tool /\ args.protocol = "claude" /\ args.model = "gpt-x"
    /\ HasKey(verdict.v, "tools")

\* the one user message of a scenario, as OpenAI, Claude and Ollama take it and as
\* Gemini takes it
Instruction(is_tool) ==
    PyStr(IF is_tool THEN "Get weather for New York. Use the get_weather tool."
          ELSE "Hello, say 'Hi'")

UserMessage(is_tool) ==
    PyList(<<Obj(<<KV("role", PyStr("user")), KV("content", Instruction(is_tool))>>)>>)

UserContents(is_tool) ==
    PyList(<<Obj(<<KV("role", PyStr("user")),
                   KV("parts",
                      PyList(<<Obj(<<KV("text", Instruction(is_tool))>>)>>))
                 >>)>>)

\* d is the envelope of protocol p for model m in the scenario
EnvelopeOf(p, m, is_tool, d) ==
    /\ d.t = "dict"
    /\ HasKey(d, "max_tokens") <=> p = "claude"
    /\ IF p = "gemini"
       THEN /\ ~HasKey(d, "model")
            /\ At(d, "contents") = UserContents(is_tool)
       ELSE /\ At(d, "model") = PyStr(m)
            /\ At(d, "messages") = UserMessage(is_tool)
            /\ At(d, "stream") = PyBool(FALSE)
            /\ ~HasKey(d, "contents")

\* the pieces of a url before the one that opens its query string
PathPieces(url) ==
    {url[i] : i \in {i \in 1..Len(url) : \A j \in 1..i : url[j] \notin
                                             {":generateContent?key=", "?key="}}}

\* C15: build_data returns the protocol's envelope for every model name and both
\* scenarios (the model in 'model' with one user message and stream = false for
\* openai, claude and ollama, 'max_tokens' for claude alone, 'contents' and no
\* 'model' for gemini, the greeting in the text scenario and the tool instruction
\* in the tool scenario); each chat request of the runner carries the envelope of
\* its own case, and a Gemini request has the model of its case in its URL path.
C15_EnvelopePerProtocol ==
    /\ \A a \in BuildArgs :
           a.protocol \in Protocols =>
               EnvelopeOf(a.protocol, a.model, a.is_tool,
                          build_data(a.protocol, a.model, a.is_tool))
    /\ \A n \in 1..Len(ChatSent) :
           LET r == ChatSent[n]
           IN  /\ EnvelopeOf(r.protocol, r.model, r.scenario = "tool", r.body.of)
               /\ r.body.encoded = "json"
               /\ r.protocol = "gemini" => r.model \in PathPieces(r.url)

C15_Witness ==
    /\ pc = "wait" /\ Len(ChatSent) > 0
    /\ ChatSent[Len(ChatSent)].protocol = "gemini"
    /\ ChatSent[Len(ChatSent)].scenario = "tool"
    /\ ChatSent[Len(ChatSent)].model = SWITCH_MODEL

\* the endpoint path and the model alias the claim gives
C16_Endpoint(p) ==
    CASE p = "openai" -> "/v1/chat/completions"
      [] p = "claude" -> "/v1/messages"
      [] p = "ollama" -> "/api/chat"
      [] p = "gemini" -> "/v1beta/models"

C16_Alias(prefix) ==
    CASE prefix = "" -> DEFAULT_MODEL
      [] prefix \in {"/switch", "/switch/compat"} -> SWITCH_MODEL
      [] prefix \in {"/glm", "/glm/compat"} -> GROUP_MODEL

\* C16: every chat request of the OpenAI and Ollama runs carries the bearer
\* Authorization header; every one of the Claude run carries x-api-key and
\* anthropic-version and no Authorization; every one of the Gemini run carries the
\* key in the query string of its URL and no credential header, the caller giving
\* none; the URL is base URL, prefix, endpoint path, and the model is the alias of
\* the prefix.
C16_CredentialsAndPath ==
    \A n \in 1..Len(ChatSent) :
        LET r == ChatSent[n]
            credentials == {"Authorization", "x-api-key", "anthropic-version"}
        IN  /\ CASE r.protocol \in {"openai", "ollama"} ->
                       /\ At(r.headers, "Authorization") = PyStr("Bearer " \o API_KEY)
                       /\ Keys(r.headers) \cap credentials = {"Authorization"}
                       /\ API_KEY \notin {r.url[i] : i \in 1..Len(r.url)}
                  [] r.protocol = "claude" ->
                       /\ At(r.headers, "x-api-key") = PyStr(API_KEY)
                       /\ HasKey(r.headers, "anthropic-version")
                       /\ ~HasKey(r.headers, "Authorization")
                       /\ API_KEY \notin {r.url[i] : i \in 1..Len(r.url)}
                  [] r.protocol = "gemini" ->
                       /\ Keys(r.headers) \cap credentials = {}
                       /\ Keys(r.given) \cap credentials = {}
                       /\ r.url[Len(r.url)] = API_KEY
                       /\ API_KEY \notin PathPieces(r.url)
            /\ SubSeq(r.url, 1, 3) = <<BASE_URL, r.prefix, C16_Endpoint(r.protocol)>>
            /\ r.model = C16_Alias(r.prefix)
            /\ r.protocol # "gemini" => At(r.body.of, "model") = PyStr(C16_Alias(r.prefix))

C16_Witness ==
    /\ pc = "wait" /\ Len(ChatSent) > 0
    /\ ChatSent[Len(ChatSent)].protocol = "claude"
    /\ ChatSent[Len(ChatSent)].prefix = "/glm/compat"
    /\ ChatSent[Len(ChatSent)].scenario = "tool"
    /\ HasKey(ChatSent[Len(ChatSent)].headers, "x-api-key")

\* -------------------------------------- the validators' claims, continued

\* the call under way is of a validator on a status-200 JSON object that does not
\* carry the 'choices' which validate_gemini and validate_ollama reject first
OwnObject ==
    /\ Parses /\ Data.t = "dict"
    /\ args.validator \in {"gemini", "ollama"} => ~HasKey(Data, S_choices)

\* the text of the "Missing '<field>' in <Protocol> response" message of a validator
MissingOf(p) ==
    CASE p = "openai" -> MsgMissing("choices", "OpenAI")
      [] p = "claude" -> MsgMissing("content", "Claude")
      [] p = "gemini" -> MsgMissing("candidates", "Gemini")
      [] p = "ollama" -> MsgMissing("message", "Ollama")

\* C17: on such an object the verdict is the "Missing '<field>' ..." failure exactly
\* when the validator's result field is absent; a result field that is there and
\* is an empty list or an empty object fails with another message, in both scenarios.
C17_EnvelopePresence ==
    OwnObject =>
        /\ verdict.outcome = "return"
        /\ ~HasKey(Data, EnvelopeField(args.validator)) =>
               verdict = Verdict(FALSE, MissingOf(args.validator))
        /\ HasKey(Data, EnvelopeField(args.validator)) => verdict.msg.kind # "Missing"
        /\ At(Data, EnvelopeField(args.validator)) \in {PyList(<<>>), PyDict(<<>>)} =>
               verdict.passed = FALSE /\ verdict.msg.kind # "Missing"

C17_Witness ==
    /\ OwnObject /\ args.validator = "ollama" /\ args.is_tool
    /\ At(Data, S_message) = PyDict(<<>>)
    /\ verdict.outcome = "return" /\ verdict.passed = FALSE
    /\ verdict.msg.kind = "ToolMissing"

\* C18, as claimed: in the tool branch a well-formed envelope without an entry naming
\* get_weather fails with the "... missing. Model said: ..." message carrying the
\* text, whether the text is a string, empty, left out or null, and never with the
\* text of an exception
C18_ToolMissingDiagnosed ==
    (/\ Parses /\ WellFormed(args.validator, Data)
     /\ args.is_tool \/ args.is_compat
     /\ ~ToolNamed(args.validator, Data)) =>
        /\ verdict.outcome = "return"
        /\ verdict.passed = FALSE
        /\ verdict.msg.kind = "ToolMissing"
        /\ TextField(args.validator, Data).t = "str" =>
               verdict.msg.said = PyStr(Take(TextField(args.validator, Data).s, 100))

\* ------------------------------------------- the runner's claims, continued

\* C19, as claimed: request leaves the mapping it is given as it was, so each case
\* of a protocol run gives request the mapping the run began with, and the listing
\* and embedding cases that share oa_h give it as test_all made it
C19_MappingUntouched ==
    \A n \in 1..Len(sent) :
        /\ sent[n].headers = sent[n].given
        /\ sent[n].phase = "chat" /\ sent[n].protocol # "gemini" =>
               sent[n].given = IF sent[n].protocol = "claude" THEN New_cl_h ELSE New_oa_h
        /\ sent[n].phase = "chat" /\ sent[n].protocol = "gemini" =>
               sent[n].given = PyDict(<<>>)
        /\ sent[n].phase = "listing" => sent[n].given = New_oa_h

\* ------------------------------------ the validators' claims, the last one

\* the call under way is of validate_gemini or validate_ollama on a status-200 JSON
\* object with a top-level 'choices'
Contaminated ==
    /\ Parses /\ args.validator \in {"gemini", "ollama"}
    /\ Data.t = "dict" /\ HasKey(Data, S_choices)

\* C20: such a body fails with the "Protocol Error" message whatever the flags,
\* with or without the validator's own result field beside 'choices' and whatever
\* that field carries; a body without 'choices' and without the result field fails
\* with "Missing ..." whatever the flags: 'choices' is looked for first, the result
\* field second and the scenario last.
C20_ContaminationFirst ==
    /\ Contaminated =>
           verdict = Verdict(FALSE, MsgProtocolError(IF args.validator = "gemini"
                                                     THEN "Gemini" ELSE "Ollama"))
    /\ (/\ OwnObject /\ args.validator \in {"gemini", "ollama"}
        /\ ~HasKey(Data, EnvelopeField(args.validator))) =>
           verdict = Verdict(FALSE, MissingOf(args.validator))

C20_Witness ==
    /\ Contaminated /\ args.validator = "ollama" /\ args.is_tool /\ ~args.is_compat
    /\ At(Data, S_message) = GoodMessage
    /\ verdict.msg.kind = "ProtocolError"

====
